---- MODULE Spec2Model ----
(***************************************************************************)
(* A model of the video stage of ai-tech-bytes:                            *)
(*   - create_video_from_audio (src/video_maker.py), the timeline of       *)
(*     clips it builds and hands to the encoder;                           *)
(*   - ParticleSystem (src/video_animations.py);                           *)
(*   - create_animated_text (src/video_animations.py).                     *)
(* Times are exact rationals.  An audio duration is a whole number of     *)
(* ticks, TicksPerSecond ticks to the second; a clip's length is kept in   *)
(* video frames (seconds * fps).  Python's int() truncates toward zero     *)
(* and // rounds down: both are modelled as such.                          *)
(***************************************************************************)
EXTENDS Integers, Sequences, FiniteSets, TLC

\* ---------------------------------------------------------------- bounds
TicksPerSecond == 4
MaxDuration == 48
MaxItems == 3
CanvasWidth == 2
CanvasHeight == 1
MaxTextLen == 2
MaxWindows == 3          \* analysis windows in an audio signal
MaxEnergy == 2           \* largest window energy
MaxFrames == 4           \* largest requested frame count
MaxSide == 3             \* largest width and height of a gradient image
MaxColors == 3           \* longest colour list of a gradient
RadialResolution == 4    \* steps to a pixel when a distance is measured
MaxRecords == 2          \* longest list an AssetManager is driven to

\* ---------------------------------------------------- program constants
OPENING_SECONDS == 3
CLOSING_SECONDS == 2
FRAME_HOLD == 10
MIN_FRAMES == 3

VARIABLES
    \* create_video_from_audio
    pc,                  \* position inside create_video_from_audio
    platform,            \* the platform argument
    duration,            \* audio.duration, in ticks
    news_items,          \* the titles read from data/today_news.json
    fps,                 \* settings['fps']
    content_duration,    \* in ticks, may be negative
    duration_per_article,\* a rational <<ticks, divisor>>
    idx,                 \* index of the article being rendered (0-based)
    frame_num,           \* frame of the article being rendered
    all_clips,           \* the clips appended so far
    video,               \* concatenate_videoclips(all_clips): the segments
    result,              \* what the function returns
    news_file,           \* what data/today_news.json turned out to be
    io_error,            \* the step that raised into the outer except, if any
    audio_loads,         \* times AudioFileClip was called in this call
    write_attempts,      \* times write_videofile was called in this call
    \* create_multiple_formats and the video step of run_pipeline
    stage_pc,            \* position inside the video step
    cmf_index,           \* index into platforms of the render in hand
    created_videos,      \* created_videos: the outputs of the good renders
    render_log,          \* one record for each call of create_video_from_audio
    video_assets,        \* the 'video' assets added to the manifest
    pipeline_result,     \* what run_pipeline does after the video step
    \* ParticleSystem
    ps_num_particles,    \* the num_particles argument of __init__
    ps_width,            \* self.width
    ps_height,           \* self.height
    particles,           \* self.particles
    ps_audio_level,      \* the argument of the latest update, in quarters
    ps_canvas,           \* the ellipses drawn, when the latest call was draw
    \* create_animated_text
    font_env,            \* what the font lookup finds on this machine
    text_prev,           \* the call before it, when its arguments were the same
    text_last,           \* the latest call: its arguments and image
    \* the amplitude extractor
    amp_pc,              \* whether the extractor has run
    amp_energy,          \* the window energies of the audio
    amp_n,               \* the requested frame count
    amp_series,          \* the amplitude series
    \* create_gradient_background
    grad_pc,             \* whether the function has run
    grad_args,           \* width, height, colors, direction, progress
    grad_pixels,         \* ratio and colour indices computed for each pixel
    \* run_pipeline
    pl_pc,               \* the stage run_pipeline is about to enter
    pl_flags,            \* skip_news, skip_audio, skip_video, use_enhanced,
                         \* use_summarization
    pl_env,              \* which optional imports of main.py succeeded
    pl_news,             \* what news_items holds
    pl_calls,            \* the stage functions called so far, with outcomes
    pl_result,           \* what run_pipeline returned
    \* AssetManager
    manifest,            \* self.manifest: assets and workflow_steps
    saved_manifest,      \* the manifest file as last written, if any
    disk,                \* the files add_asset may look at
    \* create_video_script
    sc_pc,               \* position inside create_video_script
    sc_args,             \* news_items (text lengths) and max_total_chars
    sc_i,                \* the loop index i
    sc_parts,            \* script_parts
    sc_current_length,   \* current_length
    sc_script,           \* the returned script
    \* fetch_ai_news of enhanced_news_fetcher
    fe_pc,               \* whether the function has returned
    fe_args,             \* num_articles, use_rss, use_api
    fe_sources,          \* what the RSS feeds and NewsAPI give
    fe_result            \* the returned list

renderVars == <<pc, platform, duration, news_items, fps, content_duration,
                duration_per_article, idx, frame_num, all_clips, video, result,
                news_file, io_error, audio_loads, write_attempts>>

stageVars == <<stage_pc, cmf_index, created_videos, render_log, video_assets,
               pipeline_result>>

particleVars == <<ps_num_particles, ps_width, ps_height, particles,
                  ps_audio_level, ps_canvas>>

textVars == <<font_env, text_prev, text_last>>

ampVars == <<amp_pc, amp_energy, amp_n, amp_series>>

gradVars == <<grad_pc, grad_args, grad_pixels>>

pipeVars == <<pl_pc, pl_flags, pl_env, pl_news, pl_calls, pl_result>>

assetVars == <<manifest, saved_manifest, disk>>

scriptVars == <<sc_pc, sc_args, sc_i, sc_parts, sc_current_length, sc_script>>

fetchVars == <<fe_pc, fe_args, fe_sources, fe_result>>

upstreamVars == <<pipeVars, assetVars, scriptVars, fetchVars>>

vars == <<renderVars, stageVars, particleVars, textVars, ampVars, gradVars,
          upstreamVars>>

\* ------------------------------------------------------------ arithmetic
\* Python's int(a / b) for b > 0: truncation toward zero.
TruncDiv(a, b) == IF a >= 0 THEN a \div b ELSE -((-a) \div b)

\* ceil(a / b) for b > 0.
CeilDiv(a, b) == -((-a) \div b)

Max(a, b) == IF a >= b THEN a ELSE b

\* ---------------------------------------------------------- the settings
Platforms == {"youtube_shorts", "tiktok", "youtube", "instagram"}

VIDEO_SETTINGS ==
    [youtube_shorts |-> [width |-> 1080, height |-> 1920, fps |-> 30],
     tiktok         |-> [width |-> 1080, height |-> 1920, fps |-> 30],
     youtube        |-> [width |-> 1920, height |-> 1080, fps |-> 30]]

\* VIDEO_SETTINGS.get(platform, VIDEO_SETTINGS['youtube_shorts'])
Settings(p) ==
    IF p \in DOMAIN VIDEO_SETTINGS THEN VIDEO_SETTINGS[p]
    ELSE VIDEO_SETTINGS["youtube_shorts"]

Titles == {"t1", "t2"}

NewsLists == UNION {[1..n -> Titles] : n \in 0..MaxItems}

\* data/today_news.json: not there, there but not readable as JSON, holding
\* no article, or holding articles.
NewsFiles == {"missing", "unreadable", "empty", "articles"}

\* ------------------------------------------------------------ the frames
\* The layers a frame is composited from, first drawn first.
create_frame_with_text == <<"background", "decorations", "text">>

\* create_tech_background, then the text pasted, then the shapes pasted.
create_animated_news_frame_enhanced == <<"background", "text", "shapes">>

\* progress = frame_num / (num_frames - 1) if num_frames > 1 else 0.5
ProgressOffByOne(fn, nf) == IF nf > 1 THEN <<fn, nf>> ELSE <<1, 2>>
Progress(fn, nf) == IF nf > 1 THEN <<fn, nf - 1>> ELSE <<1, 2>>

\* num_frames = max(int(duration_per_article * fps / 10), 3)
NumFrames(dpa, f) ==
    Max(TruncDiv(dpa[1] * f, dpa[2] * TicksPerSecond * FRAME_HOLD), MIN_FRAMES)

\* ImageClip(frame).set_duration(seconds): its length in video frames.
StillClip(kind, seconds, f) ==
    [kind |-> kind, story |-> 0, title |-> "", progress |-> <<0, 1>>,
     layers |-> create_frame_with_text, frames |-> seconds * f]

\* ImageClip(animated_frame).set_duration(1.0 / fps * 10)
FrameClip(i, title, p) ==
    [kind |-> "article", story |-> i + 1, title |-> title, progress |-> p,
     layers |-> create_animated_news_frame_enhanced, frames |-> FRAME_HOLD]

RECURSIVE SumFrames(_)
SumFrames(clips) ==
    IF clips = <<>> THEN 0
    ELSE clips[1].frames + SumFrames(Tail(clips))

\* concatenate_videoclips: each clip starts where the one before it ends.
Concatenate(clips) ==
    [k \in 1..Len(clips) |->
        [start |-> SumFrames(SubSeq(clips, 1, k - 1)),
         frames |-> clips[k].frames,
         kind |-> clips[k].kind,
         story |-> clips[k].story,
         title |-> clips[k].title]]

\* ------------------------------------------------ create_video_from_audio
RenderInit ==
    /\ pc = "load_audio"
    /\ platform \in Platforms
    /\ duration = 0
    /\ news_items = <<>>
    /\ fps = 0
    /\ content_duration = 0
    /\ duration_per_article = <<0, 1>>
    /\ idx = 0
    /\ frame_num = 0
    /\ all_clips = <<>>
    /\ video = <<>>
    /\ result = "running"
    /\ news_file = "unread"
    /\ io_error = "none"
    /\ audio_loads = 0
    /\ write_attempts = 0

\* audio = AudioFileClip(audio_file); duration = audio.duration
LoadAudio ==
    /\ pc = "load_audio"
    /\ \E d \in 0..MaxDuration :
          /\ duration' = d
          /\ pc' = "load_news"
    /\ audio_loads' = audio_loads + 1
    /\ UNCHANGED <<platform, news_items, fps, content_duration,
                   duration_per_article, idx, frame_num, all_clips, video,
                   result, news_file, io_error, write_attempts,
                   stageVars, particleVars, textVars,
                   ampVars, gradVars, upstreamVars>>

\* AudioFileClip raises: the outer except returns None.
LoadAudioFails ==
    /\ pc = "load_audio"
    /\ pc' = "done"
    /\ result' = "None"
    /\ io_error' = "audio"
    /\ audio_loads' = audio_loads + 1
    /\ UNCHANGED <<platform, duration, news_items, fps, content_duration,
                   duration_per_article, idx, frame_num, all_clips, video,
                   news_file, write_attempts,
                   stageVars, particleVars, textVars,
                   ampVars, gradVars, upstreamVars>>

\* The news file is read (an unreadable file gives the empty list), the
\* settings are looked up, the opening clip is made and the time per article
\* is computed.
Prepare ==
    /\ pc = "load_news"
    /\ \E file \in NewsFiles, items \in NewsLists :
          LET f == Settings(platform).fps
              cd == duration - OPENING_SECONDS * TicksPerSecond
                             - CLOSING_SECONDS * TicksPerSecond
              n == Len(items)
          IN /\ (file = "articles") = (items # <<>>)
             /\ news_file' = file
             /\ news_items' = items
             /\ fps' = f
             /\ content_duration' = cd
             /\ duration_per_article' = IF n > 0 THEN <<cd, n>> ELSE <<cd, 1>>
             /\ all_clips' = <<StillClip("opening", OPENING_SECONDS, f)>>
             /\ idx' = 0
             /\ frame_num' = 0
             /\ pc' = IF n > 0 THEN "article" ELSE "closing"
    /\ UNCHANGED <<platform, duration, video, result, io_error, audio_loads,
                   write_attempts, stageVars, particleVars, textVars,
                   ampVars, gradVars, upstreamVars>>

\* One turn of the inner loop: one animated frame of article idx.
ArticleFrame ==
    /\ pc = "article"
    /\ LET num_frames == NumFrames(duration_per_article, fps)
           progress == Progress(frame_num, num_frames)
           last == frame_num + 1 >= num_frames
       IN /\ all_clips' = Append(all_clips,
                                 FrameClip(idx, news_items[idx + 1], progress))
          /\ frame_num' = IF last THEN 0 ELSE frame_num + 1
          /\ idx' = IF last THEN idx + 1 ELSE idx
          /\ pc' = IF last /\ idx + 1 >= Len(news_items)
                   THEN "closing" ELSE "article"
    /\ UNCHANGED <<platform, duration, news_items, fps, content_duration,
                   duration_per_article, video, result,
                   news_file, io_error, audio_loads, write_attempts,
                   stageVars, particleVars, textVars,
                   ampVars, gradVars, upstreamVars>>

\* closing_clip = ImageClip(closing_frame).set_duration(2)
ClosingClip ==
    /\ pc = "closing"
    /\ all_clips' = Append(all_clips, StillClip("closing", CLOSING_SECONDS, fps))
    /\ pc' = "concat"
    /\ UNCHANGED <<platform, duration, news_items, fps, content_duration,
                   duration_per_article, idx, frame_num, video, result,
                   news_file, io_error, audio_loads, write_attempts,
                   stageVars, particleVars, textVars,
                   ampVars, gradVars, upstreamVars>>

\* video = concatenate_videoclips(all_clips); video = video.set_audio(audio)
Composite ==
    /\ pc = "concat"
    /\ video' = Concatenate(all_clips)
    /\ pc' = "write"
    /\ UNCHANGED <<platform, duration, news_items, fps, content_duration,
                   duration_per_article, idx, frame_num, all_clips, result,
                   news_file, io_error, audio_loads, write_attempts,
                   stageVars, particleVars, textVars,
                   ampVars, gradVars, upstreamVars>>

\* video.write_videofile(...) returns: the function returns output_file.
WriteVideo ==
    /\ pc = "write"
    /\ result' = "output_file"
    /\ pc' = "done"
    /\ write_attempts' = write_attempts + 1
    /\ UNCHANGED <<platform, duration, news_items, fps, content_duration,
                   duration_per_article, idx, frame_num, all_clips, video,
                   news_file, io_error, audio_loads,
                   stageVars, particleVars, textVars,
                   ampVars, gradVars, upstreamVars>>

\* A write that raises and is tried again.
WriteVideoFailsRetry ==
    /\ pc = "write"
    /\ pc' = "write"
    /\ io_error' = "encoder"
    /\ write_attempts' = write_attempts + 1
    /\ UNCHANGED <<platform, duration, news_items, fps, content_duration,
                   duration_per_article, idx, frame_num, all_clips, video,
                   result, news_file, audio_loads,
                   stageVars, particleVars, textVars,
                   ampVars, gradVars, upstreamVars>>

\* A write that raises and yet hands back the output path.
WriteVideoFailsReturnsFile ==
    /\ pc = "write"
    /\ result' = "output_file"
    /\ pc' = "done"
    /\ io_error' = "encoder"
    /\ write_attempts' = write_attempts + 1
    /\ UNCHANGED <<platform, duration, news_items, fps, content_duration,
                   duration_per_article, idx, frame_num, all_clips, video,
                   news_file, audio_loads,
                   stageVars, particleVars, textVars,
                   ampVars, gradVars, upstreamVars>>

\* makedirs or write_videofile raises: the outer except returns None.
WriteVideoFails ==
    /\ pc = "write"
    /\ result' = "None"
    /\ pc' = "done"
    /\ io_error' = "encoder"
    /\ write_attempts' = write_attempts + 1
    /\ UNCHANGED <<platform, duration, news_items, fps, content_duration,
                   duration_per_article, idx, frame_num, all_clips, video,
                   news_file, audio_loads,
                   stageVars, particleVars, textVars,
                   ampVars, gradVars, upstreamVars>>

\* ----------------- create_multiple_formats and the video step of run_pipeline
\* platforms = ['youtube_shorts', 'youtube']
CMF_PLATFORMS == <<"youtube_shorts", "youtube">>

StageIdle ==
    /\ stage_pc = "idle"
    /\ cmf_index = 1
    /\ created_videos = <<>>
    /\ render_log = <<>>
    /\ video_assets = <<>>
    /\ pipeline_result = "running"

\* run_pipeline has reached `videos = create_multiple_formats()`.
StageInit ==
    /\ stage_pc = "formats"
    /\ cmf_index = 1
    /\ created_videos = <<>>
    /\ render_log = <<>>
    /\ video_assets = <<>>
    /\ pipeline_result = "running"

\* The locals of create_video_from_audio, as a call starts (to = "load_audio")
\* and once it has returned (to = "idle").
RenderLocals(to, p) ==
    /\ pc' = to
    /\ platform' = p
    /\ duration' = 0
    /\ news_items' = <<>>
    /\ fps' = 0
    /\ content_duration' = 0
    /\ duration_per_article' = <<0, 1>>
    /\ idx' = 0
    /\ frame_num' = 0
    /\ all_clips' = <<>>
    /\ video' = <<>>
    /\ result' = "running"
    /\ news_file' = "unread"
    /\ io_error' = "none"
    /\ audio_loads' = 0
    /\ write_attempts' = 0

\* The loop of create_multiple_formats calls create_video_from_audio for the
\* next platform.
StartRender ==
    /\ stage_pc = "formats"
    /\ cmf_index <= Len(CMF_PLATFORMS)
    /\ stage_pc' = "rendering"
    /\ RenderLocals("load_audio", CMF_PLATFORMS[cmf_index])
    /\ UNCHANGED <<cmf_index, created_videos, render_log, video_assets,
                   pipeline_result, particleVars, textVars,
                   ampVars, gradVars, upstreamVars>>

\* A return that puts the newest output first in created_videos.
FinishRenderNewestFirst ==
    /\ stage_pc = "rendering"
    /\ pc = "done"
    /\ created_videos' = IF result # "None"
                         THEN <<platform>> \o created_videos
                         ELSE created_videos
    /\ render_log' = Append(render_log,
                            [platform |-> platform, result |-> result,
                             io_error |-> io_error,
                             audio_loads |-> audio_loads,
                             write_attempts |-> write_attempts])
    /\ cmf_index' = cmf_index + 1
    /\ stage_pc' = IF cmf_index + 1 > Len(CMF_PLATFORMS)
                   THEN "register" ELSE "formats"
    /\ RenderLocals("idle", "youtube_shorts")
    /\ UNCHANGED <<video_assets, pipeline_result, particleVars, textVars,
                   ampVars, gradVars, upstreamVars>>

\* The call returns: `if result: created_videos.append(result)`, and the loop
\* moves on.  The output file of a platform is named by the platform.
FinishRender ==
    /\ stage_pc = "rendering"
    /\ pc = "done"
    /\ created_videos' = IF result # "None"
                         THEN Append(created_videos, platform)
                         ELSE created_videos
    /\ render_log' = Append(render_log,
                            [platform |-> platform, result |-> result,
                             io_error |-> io_error,
                             audio_loads |-> audio_loads,
                             write_attempts |-> write_attempts])
    /\ cmf_index' = cmf_index + 1
    /\ stage_pc' = IF cmf_index + 1 > Len(CMF_PLATFORMS)
                   THEN "register" ELSE "formats"
    /\ RenderLocals("idle", "youtube_shorts")
    /\ UNCHANGED <<video_assets, pipeline_result, particleVars, textVars,
                   ampVars, gradVars, upstreamVars>>

\* create_multiple_formats has returned created_videos.  `if videos:` adds a
\* 'video' asset for each and goes on to the manifest; otherwise run_pipeline
\* returns False.
RegisterVideos ==
    /\ stage_pc = "register"
    /\ stage_pc' = "done"
    /\ IF created_videos # <<>>
       THEN /\ video_assets' = created_videos
            /\ pipeline_result' = "continues"
       ELSE /\ video_assets' = video_assets
            /\ pipeline_result' = "False"
    /\ UNCHANGED <<cmf_index, created_videos, render_log, renderVars,
                   particleVars, textVars,
                   ampVars, gradVars, upstreamVars>>

\* --------------------------------------------------------- ParticleSystem
\* Positions are whole pixels and velocities whole pixels per update; an
\* audio level is a number of quarters, so that audio_level * 4 is a whole
\* number.
ParticleCounts == {1, 2}
Velocities == {-1, 0, 1}
Sizes == {2, 6}
AudioLevels == {0, 2, 4}
UpdateLevels == 0..4

\* A boost of twice the factor.
SpeedBoostDoubled(q) == 1 + 2 * q

\* speed_boost = 1 + (audio_level * 4), for an audio level of q quarters
SpeedBoost(q) == 1 + q

\* One particle as __init__ may draw it.
NewParticles(width, height) ==
    [x : 0..width, y : 0..height, vx : Velocities, vy : Velocities,
     size : Sizes, color : {<<100, 200, 255>>}]

\* The body of update's loop, the wrap forgotten on the far edges.
UpdateParticleNoFarWrap(p, speed_boost, width, height) ==
    LET x1 == p.x + p.vx * speed_boost
        y1 == p.y + p.vy * speed_boost
    IN [p EXCEPT !.x = IF x1 < 0 THEN width ELSE x1,
                 !.y = IF y1 < 0 THEN height ELSE y1]

\* The body of update's loop, wrapping modulo the canvas.
UpdateParticleModulo(p, speed_boost, width, height) ==
    LET x1 == p.x + p.vx * speed_boost
        y1 == p.y + p.vy * speed_boost
    IN [p EXCEPT !.x = IF x1 < 0 \/ x1 > width THEN x1 % width ELSE x1,
                 !.y = IF y1 < 0 \/ y1 > height THEN y1 % height ELSE y1]

\* The body of update's loop: move, then the four tests in their order.
UpdateParticle(p, speed_boost, width, height) ==
    LET x1 == p.x + p.vx * speed_boost
        y1 == p.y + p.vy * speed_boost
        x2 == IF x1 < 0 THEN width ELSE x1
        x3 == IF x2 > width THEN 0 ELSE x2
        y2 == IF y1 < 0 THEN height ELSE y1
        y3 == IF y2 > height THEN 0 ELSE y2
    IN [p EXCEPT !.x = x3, !.y = y3]

ParticlesIdle ==
    /\ ps_num_particles = 0
    /\ ps_width = 0
    /\ ps_height = 0
    /\ particles = <<>>
    /\ ps_audio_level = -1
    /\ ps_canvas = <<>>

\* ParticleSystem(width, height, num_particles)
ParticlesInit ==
    /\ ps_width = CanvasWidth
    /\ ps_height = CanvasHeight
    /\ ps_num_particles \in ParticleCounts
    /\ particles \in [1..ps_num_particles ->
                         NewParticles(CanvasWidth, CanvasHeight)]
    /\ ps_audio_level = -1
    /\ ps_canvas = <<>>

\* update(audio_level)
Update ==
    /\ \E q \in UpdateLevels :
          /\ ps_audio_level' = q
          /\ particles' = [i \in DOMAIN particles |->
                              UpdateParticle(particles[i], SpeedBoost(q),
                                             ps_width, ps_height)]
    /\ ps_canvas' = <<>>
    /\ UNCHANGED <<ps_num_particles, ps_width, ps_height, renderVars,
                   stageVars, textVars, ampVars, gradVars, upstreamVars>>

\* draw.ellipse([x-size, y-size, x+size, y+size], fill=color + (150,)), with
\* x, y = int(p['x']), int(p['y']); the positions of the model are whole.
Ellipse(p) ==
    [box |-> <<p.x - p.size, p.y - p.size, p.x + p.size, p.y + p.size>>,
     fill |-> p.color \o <<150>>]

\* A draw that also moves what it has drawn.
DrawAdvancing ==
    /\ particles # <<>>
    /\ ps_canvas' = [i \in DOMAIN particles |-> Ellipse(particles[i])]
    /\ particles' = [i \in DOMAIN particles |->
                        UpdateParticle(particles[i], 1, ps_width, ps_height)]
    /\ UNCHANGED <<ps_num_particles, ps_width, ps_height, ps_audio_level,
                   renderVars, stageVars, textVars, ampVars, gradVars, upstreamVars>>

\* draw(draw): one ellipse for each particle, on the image it is given.
Draw ==
    /\ particles # <<>>
    /\ ps_canvas' = [i \in DOMAIN particles |-> Ellipse(particles[i])]
    /\ UNCHANGED <<ps_num_particles, ps_width, ps_height, particles,
                   ps_audio_level, renderVars, stageVars, textVars,
                   ampVars, gradVars, upstreamVars>>

\* --------------------------------------------------- create_animated_text
\* A text is a sequence of characters; progress and audio_level are numbers
\* of quarters.  A font is its face and size; the image is the sequence of
\* draw.text calls made on it.
Quarters == 0..4
Canvases == {<<1080, 1920>>}
Texts == UNION {[1..n -> {"A"}] : n \in 0..MaxTextLen}
FontSizes == {5, 60}
Effects == {"slide", "zoom", "wave", "pulse", "fade"}
FontEnvs == {"truetype", "missing", "broken"}

\* get_font_path, ImageFont.truetype and the fallback ImageFont.load_default:
\* the preferred font loads when a path is found, the file is a font and
\* the size is positive.  This one loads the size of the call before.
LoadFontStale(size) ==
    LET s == IF text_last.args = <<>> THEN size ELSE text_last.args[4]
    IN IF font_env = "truetype" /\ s > 0
       THEN [face |-> "truetype", size |-> s]
       ELSE [face |-> "default", size |-> 11]

\* This one has no fallback: where the preferred font does not load there is
\* no font.
LoadFontNoFallback(size) ==
    IF font_env = "truetype" /\ size > 0
    THEN [face |-> "truetype", size |-> size]
    ELSE [face |-> "none", size |-> 0]

LoadFont(size) ==
    IF font_env = "truetype" /\ size > 0
    THEN [face |-> "truetype", size |-> size]
    ELSE [face |-> "default", size |-> 11]

\* The loader of create_frame_with_text, create_ai_icon_frame and
\* create_animated_news_frame: get_font_path always names a path; a path that
\* does not exist takes the else branch, a truetype call that raises takes
\* the except branch, and both end in load_default.
MakerLoadFont(size) ==
    IF font_env = "missing"
    THEN [face |-> "default", size |-> 11]
    ELSE IF font_env = "broken" \/ size <= 0
         THEN [face |-> "default", size |-> 11]
         ELSE [face |-> "truetype", size |-> size]

\* draw.textbbox((0, 0), text, font=font): the width and height of the box.
TextWidth(text, font) ==
    Len(text) * (IF font.face = "truetype" THEN font.size \div 2 ELSE 6)
TextHeight(text, font) == IF text = <<>> THEN 0 ELSE font.size

\* int(10 * math.sin(progress * math.pi * 2 + i * 0.5)) for a progress of q
\* quarters and the characters 0..3.
WaveOffset(q, i) ==
    LET row == CASE q % 4 = 0 -> <<0, 4, 8, 9>>
                 [] q % 4 = 1 -> <<10, 8, 5, 0>>
                 [] q % 4 = 2 -> <<0, -4, -8, -9>>
                 [] q % 4 = 3 -> <<-10, -8, -5, 0>>
    IN row[i + 1]

DrawText(x, y, text, font, fill) ==
    [x |-> x, y |-> y, text |-> text, font |-> font, fill |-> fill]

\* The glow, four offset copies, and the text over it.
DrawGlowing(x, y, text, font, level) ==
    LET glow_alpha == TruncDiv(400 + 100 * level, 4)
        Glow(dx, dy) == DrawText(x + dx, y + dy, text, font,
                                 <<0, 100, 255, glow_alpha>>)
    IN <<Glow(2, 2), Glow(-2, -2), Glow(2, -2), Glow(-2, 2),
         DrawText(x, y, text, font, <<255, 255, 255, 255>>)>>

CreateAnimatedText(width, height, text, font_size, progress, effect, level) ==
    LET font == LoadFont(font_size)
        text_width == TextWidth(text, font)
        text_height == TextHeight(text, font)
        x == (width - text_width) \div 2
        y == (height - text_height) \div 2
        Resized(temp_font_size) ==
            LET f == LoadFont(temp_font_size)
            IN DrawGlowing((width - TextWidth(text, f)) \div 2,
                           (height - TextHeight(text, f)) \div 2,
                           text, f, level)
    IN CASE effect = "slide" ->
              DrawGlowing(TruncDiv(-text_width * 4
                                     + (width + text_width) * progress, 4),
                          y, text, font, level)
         [] effect = "zoom" ->
              Resized(TruncDiv(font_size * (4 + 9 * progress), 40))
         [] effect = "wave" ->
              [i \in 1..Len(text) |->
                  DrawText(x + TextWidth(SubSeq(text, 1, i - 1), font),
                           y + WaveOffset(progress, i - 1),
                           <<text[i]>>, font, <<255, 255, 255, 255>>)]
         [] effect = "pulse" ->
              Resized(TruncDiv(font_size * (20 + level), 20))
         [] OTHER ->
              <<DrawText(x, y, text, font,
                         <<255, 255, 255, TruncDiv(255 * progress, 4)>>)>>

NoCall == [args |-> <<>>, out |-> <<>>]

TextIdle ==
    /\ font_env = "truetype"
    /\ text_prev = NoCall
    /\ text_last = NoCall

TextInit ==
    /\ font_env \in FontEnvs
    /\ text_prev = NoCall
    /\ text_last = NoCall

\* One call of create_animated_text.  The call before it is remembered when
\* it had the same arguments, so that the two images can be compared.
CallAnimatedText ==
    /\ \E c \in Canvases, text \in Texts, font_size \in FontSizes,
          progress \in Quarters, effect \in Effects, level \in AudioLevels :
          /\ text_last' =
                [args |-> <<c[1], c[2], text, font_size, progress, effect,
                            level>>,
                 out |-> CreateAnimatedText(c[1], c[2], text, font_size,
                                            progress, effect, level)]
          /\ text_prev' =
                IF text_last.args = <<c[1], c[2], text, font_size, progress,
                                      effect, level>>
                THEN text_last ELSE NoCall
    /\ UNCHANGED <<font_env, renderVars, stageVars, particleVars,
                   ampVars, gradVars, upstreamVars>>

\* ------------------------------------------------ the amplitude extractor
\* The audio is the sequence of its short-window energies (RMS), each a
\* whole number; an amplitude is a rational <<numerator, denominator>>.
Energies == UNION {[1..m -> 0..MaxEnergy] : m \in 0..MaxWindows}

\* The epsilon that guards the normalisation denominator is 1 / EPSILON_INV.
EPSILON_INV == 1000

Min(a, b) == IF a <= b THEN a ELSE b
SeqMin(seq) == CHOOSE v \in {seq[k] : k \in 1..Len(seq)} :
                  \A k \in 1..Len(seq) : v <= seq[k]
SeqMax(seq) == CHOOSE v \in {seq[k] : k \in 1..Len(seq)} :
                  \A k \in 1..Len(seq) : v >= seq[k]

\* The energies as they are, neither normalised nor resampled.
ExtractAmplitudeRaw(energy, N) ==
    [k \in 1..Len(energy) |-> <<energy[k], 1>>]

\* Min-max normalisation over the clip, (e - min) / (max - min + epsilon),
\* then linear interpolation onto N evenly spaced points from the first
\* window to the last, then the clamp to [0, 1].  Audio of zero length gives
\* N zeros.
ExtractAmplitude(energy, N) ==
    IF energy = <<>>
    THEN [j \in 1..N |-> <<0, 1>>]
    ELSE LET M == Len(energy)
             lo == SeqMin(energy)
             den == (SeqMax(energy) - lo) * EPSILON_INV + 1
             num(k) == (energy[k] - lo) * EPSILON_INV
             steps == IF N > 1 THEN N - 1 ELSE 1
             Clamp(v) == <<Max(0, Min(v[1], v[2])), v[2]>>
             At(j) == LET pos == (j - 1) * (M - 1)
                          left == pos \div steps
                          r == pos % steps
                          right == Min(left + 1, M - 1)
                      IN <<num(left + 1) * (steps - r) + num(right + 1) * r,
                           den * steps>>
         IN [j \in 1..N |-> Clamp(At(j))]

AmplitudeInit ==
    /\ amp_pc = "input"
    /\ amp_energy \in Energies
    /\ amp_n \in 0..MaxFrames
    /\ amp_series = <<>>

\* The series is computed once, before any frame is made.
Extract ==
    /\ amp_pc = "input"
    /\ amp_series' = ExtractAmplitude(amp_energy, amp_n)
    /\ amp_pc' = "done"
    /\ UNCHANGED <<amp_energy, amp_n, renderVars, stageVars, particleVars,
                   textVars, gradVars, upstreamVars>>

AmplitudeIdle ==
    /\ amp_pc = "idle"
    /\ amp_energy = <<>>
    /\ amp_n = 0
    /\ amp_series = <<>>

\* ---------------------------------------------- create_gradient_background
\* A colour is one channel; progress is a number of quarters; a ratio is a
\* rational <<numerator, denominator>>.
Directions == {"vertical", "horizontal", "diagonal", "radial"}
ColorLists == UNION {[1..n -> {0, 255}] : n \in 1..MaxColors}

\* math.sqrt, to the resolution of the model: the largest r with r * r <= n.
ISqrt(n) == CHOOSE r \in 0..n : r * r <= n /\ n < (r + 1) * (r + 1)

\* shift = int(progress * 100)
Shift(progress) == TruncDiv(progress * 100, 4)

\* The ratio with the shifted coordinate not reduced modulo the extent.
GradientRatioNoModulo(direction, x, y, width, height, shift) ==
    CASE direction = "vertical" -> <<y + shift, height>>
      [] direction = "horizontal" -> <<x + shift, width>>
      [] direction = "diagonal" -> <<x + y + shift, width + height>>
      [] OTHER -> <<x + y + shift, width>>

\* The ratio of one pixel.  For the radial direction dx, dy and max_radius
\* are taken doubled, which leaves the ratio as it is, and the distance is
\* measured in steps of 1 / RadialResolution.
GradientRatio(direction, x, y, width, height, shift) ==
    CASE direction = "vertical" -> <<(y + shift) % height, height>>
      [] direction = "horizontal" -> <<(x + shift) % width, width>>
      [] direction = "diagonal" ->
            <<(x + y + shift) % (width + height), width + height>>
      [] OTHER ->
            LET dx == 2 * x - width
                dy == 2 * y - height
                max_radius == width * RadialResolution
                dist == ISqrt((dx * dx + dy * dy)
                                * RadialResolution * RadialResolution)
            IN <<(dist + 2 * shift * RadialResolution) % max_radius,
                 max_radius>>

\* The body of the pixel loop: the two colour indices (from 0, as in the
\* code), the local ratio and the interpolated channel; an index outside the
\* list raises IndexError.
GradientPixel(direction, x, y, width, height, colors, shift) ==
    LET ratio == GradientRatio(direction, x, y, width, height, shift)
        last == Len(colors) - 1
        idx1 == TruncDiv(ratio[1] * last, ratio[2])
        idx2 == Min(idx1 + 1, last)
        local_num == ratio[1] * last - idx1 * ratio[2]
        InList(i) == -Len(colors) <= i /\ i <= last
        At(i) == colors[(i % Len(colors)) + 1]
    IN [ratio |-> ratio, idx1 |-> idx1, idx2 |-> idx2,
        color |-> IF InList(idx1) /\ InList(idx2)
                  THEN TruncDiv(At(idx1) * ratio[2]
                                  + (At(idx2) - At(idx1)) * local_num,
                                ratio[2])
                  ELSE -1]

create_gradient_background(width, height, colors, direction, progress) ==
    [y \in 0..(height - 1) |->
        [x \in 0..(width - 1) |->
            GradientPixel(direction, x, y, width, height, colors,
                          Shift(progress))]]

GradientInit ==
    /\ grad_pc = "called"
    /\ grad_args \in [width : 1..MaxSide, height : 1..MaxSide,
                      colors : ColorLists, direction : Directions,
                      progress : Quarters]
    /\ grad_pixels = <<>>

Gradient ==
    /\ grad_pc = "called"
    /\ grad_pixels' = create_gradient_background(
                          grad_args.width, grad_args.height, grad_args.colors,
                          grad_args.direction, grad_args.progress)
    /\ grad_pc' = "returned"
    /\ UNCHANGED <<grad_args, renderVars, stageVars, particleVars, textVars,
                   ampVars, upstreamVars>>

GradientIdle ==
    /\ grad_pc = "idle"
    /\ grad_args = <<>>
    /\ grad_pixels = <<>>

\* ------------------------------------------------------------ AssetManager
\* A file is there with a size and an md5, or it is not.
Missing == [exists |-> FALSE, size |-> 0, md5 |-> "None"]
Present == [exists |-> TRUE, size |-> 1, md5 |-> "d41d"]

NEWS_FILE == "data/today_news.json"
SCRIPT_FILE == "data/ai_news_audio_script.txt"
AUDIO_FILE == "data/ai_news_audio.mp3"
OutputFile(p) == IF p = "youtube_shorts"
                 THEN "output/ai_tech_bytes_youtube_shorts.mp4"
                 ELSE "output/ai_tech_bytes_youtube.mp4"
Files == {NEWS_FILE, SCRIPT_FILE, AUDIO_FILE,
          OutputFile("youtube_shorts"), OutputFile("youtube")}

\* AssetManager(): the manifest with no asset and no workflow step.
NewManifest == [assets |-> <<>>, workflow_steps |-> <<>>]

\* An add_asset that writes over the latest record.
add_asset_overwriting(m, asset_type, filename, file) ==
    LET asset == [type |-> asset_type, filename |-> filename,
                  file_size_bytes |-> file.size, md5_hash |-> file.md5]
    IN IF m.assets = <<>>
       THEN [m EXCEPT !.assets = <<asset>>]
       ELSE [m EXCEPT !.assets[Len(m.assets)] = asset]

\* add_asset: the size and md5 of a file that exists, 0 and None otherwise,
\* appended to manifest['assets'].
add_asset(m, asset_type, filename, file) ==
    LET file_size == IF file.exists THEN file.size ELSE 0
        file_hash == IF file.exists THEN file.md5 ELSE "None"
        asset == [type |-> asset_type, filename |-> filename,
                  file_size_bytes |-> file_size, md5_hash |-> file_hash]
    IN [m EXCEPT !.assets = Append(@, asset)]

\* An add_workflow_step that puts the step first.
add_workflow_step_first(m, step_name, step_type, status) ==
    [m EXCEPT !.workflow_steps =
        <<[name |-> step_name, type |-> step_type, status |-> status]>> \o @]

\* add_workflow_step: appended to manifest['workflow_steps'].
add_workflow_step(m, step_name, step_type, status) ==
    [m EXCEPT !.workflow_steps =
        Append(@, [name |-> step_name, type |-> step_type,
                   status |-> status])]

AssetsIdle ==
    /\ manifest = NewManifest
    /\ saved_manifest = <<>>
    /\ disk = [f \in Files |-> Missing]

AssetsInit ==
    /\ manifest = NewManifest
    /\ saved_manifest = <<>>
    /\ \E news, audio \in {Missing, Present} :
          disk = [f \in Files |-> IF f = NEWS_FILE THEN news
                                  ELSE IF f = AUDIO_FILE THEN audio
                                  ELSE Missing]

AssetTypes == {"news", "video"}
StepNames == {"News Fetching", "Video Composition"}
StepStatuses == {"completed", "failed"}

AddAsset ==
    /\ Len(manifest.assets) < MaxRecords
    /\ \E asset_type \in AssetTypes, filename \in {NEWS_FILE, AUDIO_FILE} :
          manifest' = add_asset(manifest, asset_type, filename,
                                disk[filename])
    /\ UNCHANGED <<saved_manifest, disk, renderVars, stageVars, particleVars,
                   textVars, ampVars, gradVars, pipeVars, scriptVars,
                   fetchVars>>

AddWorkflowStep ==
    /\ Len(manifest.workflow_steps) < MaxRecords
    /\ \E step_name \in StepNames, status \in StepStatuses :
          manifest' = add_workflow_step(manifest, step_name, "fetch", status)
    /\ UNCHANGED <<saved_manifest, disk, renderVars, stageVars, particleVars,
                   textVars, ampVars, gradVars, pipeVars, scriptVars,
                   fetchVars>>

\* save_manifest: json.dump(self.manifest) into the manifest file.
SaveManifest ==
    /\ saved_manifest' = <<manifest>>
    /\ UNCHANGED <<manifest, disk, renderVars, stageVars, particleVars,
                   textVars, ampVars, gradVars, pipeVars, scriptVars,
                   fetchVars>>

\* ------------------------------------------------------------ run_pipeline
Flags == [skip_news : BOOLEAN, skip_audio : BOOLEAN, skip_video : BOOLEAN,
          use_enhanced : BOOLEAN, use_summarization : BOOLEAN]

\* fetch_ai_news_enhanced, create_video_script and AssetManager are None
\* when their import failed.
Envs == [enhanced : BOOLEAN, summarizer : BOOLEAN, asset_manager : BOOLEAN]

\* run_pipeline is entered: asset_manager = AssetManager() and
\* news_items = [].
PipelineInit ==
    /\ pl_pc = "news"
    /\ pl_flags \in Flags
    /\ pl_env \in Envs
    /\ pl_news = "empty"
    /\ pl_calls = <<>>
    /\ pl_result = "running"
    /\ manifest = NewManifest
    /\ saved_manifest = <<>>
    /\ \E news \in {Missing, Present} :
          disk = [f \in Files |-> IF f = NEWS_FILE THEN news ELSE Missing]

Call(fn, outcome) == [fn |-> fn, outcome |-> outcome]

\* What the calls guarded by `if asset_manager:` leave in the manifest.
Managed(m) == IF pl_env.asset_manager THEN m ELSE manifest

\* A stage is left by return False, by an exception nothing catches, or by
\* falling through to the workflow step that follows it.
Leave(res) ==
    /\ pl_result' = res
    /\ pl_pc' = "done"
    /\ UNCHANGED <<manifest, saved_manifest, disk>>

Written(files) == [f \in Files |-> IF f \in files THEN Present ELSE disk[f]]

\* Step 1.  The enhanced fetcher returns dicts, never an empty list, and
\* save_news_to_file of news_fetcher unpacks every item as (title, desc):
\* the ValueError is caught and run_pipeline returns False.  The standard
\* fetcher returns tuples.  With skip_news the existing file is loaded
\* outside any try.
NewsStage ==
    /\ pl_pc = "news"
    /\ \/ /\ ~pl_flags.skip_news
          /\ pl_flags.use_enhanced /\ pl_env.enhanced
          /\ pl_news' = "dicts"
          /\ pl_calls' = pl_calls \o <<Call("fetch_ai_news_enhanced", "dicts"),
                                       Call("save_news_to_file", "raised")>>
          /\ Leave("False")
       \/ /\ ~pl_flags.skip_news
          /\ ~(pl_flags.use_enhanced /\ pl_env.enhanced)
          /\ \/ /\ pl_calls' = Append(pl_calls,
                                      Call("fetch_ai_news", "raised"))
                /\ Leave("False")
                /\ UNCHANGED pl_news
             \/ /\ pl_calls' = pl_calls \o <<Call("fetch_ai_news", "tuples"),
                                             Call("save_news_to_file",
                                                  "raised")>>
                /\ pl_news' = "tuples"
                /\ Leave("False")
             \/ /\ pl_calls' = Append(pl_calls,
                                      Call("fetch_ai_news", "empty"))
                /\ pl_news' = "empty"
                /\ manifest' = Managed(add_workflow_step(
                       manifest, "News Fetching", "fetch", "completed"))
                /\ pl_pc' = "summarize"
                /\ UNCHANGED <<pl_result, saved_manifest, disk>>
             \/ /\ pl_calls' = pl_calls \o <<Call("fetch_ai_news", "tuples"),
                                             Call("save_news_to_file", "ok")>>
                /\ pl_news' = "tuples"
                /\ disk' = Written({NEWS_FILE})
                /\ manifest' = Managed(add_workflow_step(
                       add_asset(manifest, "news", NEWS_FILE, Present),
                       "News Fetching", "fetch", "completed"))
                /\ pl_pc' = "summarize"
                /\ UNCHANGED <<pl_result, saved_manifest>>
       \/ /\ pl_flags.skip_news
          /\ \/ /\ disk[NEWS_FILE].exists
                /\ pl_news' = "file_dict"
                /\ manifest' = Managed(add_workflow_step(
                       manifest, "News Fetching", "fetch", "completed"))
                /\ pl_pc' = "summarize"
                /\ UNCHANGED <<pl_calls, pl_result, saved_manifest, disk>>
             \/ /\ disk[NEWS_FILE].exists
                /\ Leave("raised")
                /\ UNCHANGED <<pl_calls, pl_news>>
             \/ /\ ~disk[NEWS_FILE].exists
                /\ manifest' = Managed(add_workflow_step(
                       manifest, "News Fetching", "fetch", "completed"))
                /\ pl_pc' = "summarize"
                /\ UNCHANGED <<pl_calls, pl_news, pl_result, saved_manifest,
                               disk>>
    /\ UNCHANGED <<pl_flags, pl_env, renderVars, stageVars, particleVars,
                   textVars, ampVars, gradVars, scriptVars, fetchVars>>

\* A summarization whose failure ends the run.
SummarizeStageFatal ==
    /\ pl_pc = "summarize"
    /\ \/ /\ pl_flags.use_summarization /\ pl_env.summarizer
          /\ ~pl_flags.skip_audio
          /\ \/ /\ pl_news = "empty"
                /\ pl_calls' = Append(pl_calls,
                                      Call("create_video_script", "ok"))
                /\ disk' = Written({SCRIPT_FILE})
                /\ manifest' = Managed(add_workflow_step(
                       add_asset(manifest, "script", SCRIPT_FILE, Present),
                       "Text Summarization", "summarize", "completed"))
                /\ pl_pc' = "audio"
                /\ UNCHANGED <<pl_result, saved_manifest>>
             \/ /\ pl_calls' = Append(pl_calls,
                                      Call("create_video_script", "raised"))
                /\ Leave("False")
       \/ /\ ~(pl_flags.use_summarization /\ pl_env.summarizer
                 /\ ~pl_flags.skip_audio)
          /\ manifest' = Managed(add_workflow_step(
                 manifest, "Text Summarization", "summarize", "completed"))
          /\ pl_pc' = "audio"
          /\ UNCHANGED <<pl_calls, pl_result, saved_manifest, disk>>
    /\ UNCHANGED <<pl_flags, pl_env, pl_news, renderVars, stageVars,
                   particleVars, textVars, ampVars, gradVars, scriptVars,
                   fetchVars>>

\* Step 1.5.  create_video_script calls item.get on every item, so it
\* returns a script only for an empty list: tuples and the keys of the loaded
\* file raise AttributeError.  Writing the script file may raise as well.
\* Either way the except only warns.
SummarizeStage ==
    /\ pl_pc = "summarize"
    /\ \/ /\ pl_flags.use_summarization /\ pl_env.summarizer
          /\ ~pl_flags.skip_audio
          /\ \/ /\ pl_news = "empty"
                /\ pl_calls' = Append(pl_calls,
                                      Call("create_video_script", "ok"))
                /\ disk' = Written({SCRIPT_FILE})
                /\ manifest' = Managed(add_workflow_step(
                       add_asset(manifest, "script", SCRIPT_FILE, Present),
                       "Text Summarization", "summarize", "completed"))
                /\ pl_pc' = "audio"
                /\ UNCHANGED <<pl_result, saved_manifest>>
             \/ /\ pl_calls' = Append(pl_calls,
                                      Call("create_video_script", "raised"))
                /\ manifest' = Managed(add_workflow_step(
                       manifest, "Text Summarization", "summarize",
                       "completed"))
                /\ pl_pc' = "audio"
                /\ UNCHANGED <<pl_result, saved_manifest, disk>>
       \/ /\ ~(pl_flags.use_summarization /\ pl_env.summarizer
                 /\ ~pl_flags.skip_audio)
          /\ manifest' = Managed(add_workflow_step(
                 manifest, "Text Summarization", "summarize", "completed"))
          /\ pl_pc' = "audio"
          /\ UNCHANGED <<pl_calls, pl_result, saved_manifest, disk>>
    /\ UNCHANGED <<pl_flags, pl_env, pl_news, renderVars, stageVars,
                   particleVars, textVars, ampVars, gradVars, scriptVars,
                   fetchVars>>

\* Step 2.  generate_audio_from_news returns the audio file, or None, or
\* raises.
AudioStage ==
    /\ pl_pc = "audio"
    /\ \/ /\ ~pl_flags.skip_audio
          /\ \/ /\ pl_calls' = Append(pl_calls,
                                      Call("generate_audio_from_news", "ok"))
                /\ disk' = Written({AUDIO_FILE})
                /\ manifest' = Managed(add_workflow_step(
                       add_asset(manifest, "audio", AUDIO_FILE, Present),
                       "Audio Generation", "generate", "completed"))
                /\ pl_pc' = "video"
                /\ UNCHANGED <<pl_result, saved_manifest>>
             \/ /\ \E outcome \in {"None", "raised"} :
                      pl_calls' = Append(pl_calls,
                          Call("generate_audio_from_news", outcome))
                /\ Leave("False")
       \/ /\ pl_flags.skip_audio
          /\ manifest' = Managed(add_workflow_step(
                 manifest, "Audio Generation", "generate", "completed"))
          /\ pl_pc' = "video"
          /\ UNCHANGED <<pl_calls, pl_result, saved_manifest, disk>>
    /\ UNCHANGED <<pl_flags, pl_env, pl_news, renderVars, stageVars,
                   particleVars, textVars, ampVars, gradVars, scriptVars,
                   fetchVars>>

\* What create_multiple_formats may return: the platforms whose render
\* succeeded, in platform order.
VideoLists == {<<>>, <<"youtube_shorts">>, <<"youtube">>,
               <<"youtube_shorts", "youtube">>}

RECURSIVE AddVideos(_, _)
AddVideos(m, videos) ==
    IF videos = <<>> THEN m
    ELSE AddVideos(add_asset(m, "video", OutputFile(Head(videos)), Present),
                   Tail(videos))

\* Step 3.  create_multiple_formats returns the list of created videos.
VideoStage ==
    /\ pl_pc = "video"
    /\ \/ /\ ~pl_flags.skip_video
          /\ \E videos \in VideoLists :
                IF videos # <<>>
                THEN /\ pl_calls' = Append(pl_calls,
                            Call("create_multiple_formats", "ok"))
                     /\ disk' = Written({OutputFile(videos[k]) :
                                            k \in 1..Len(videos)})
                     /\ manifest' = Managed(add_workflow_step(
                            AddVideos(manifest, videos),
                            "Video Composition", "compose", "completed"))
                     /\ pl_pc' = "manifest"
                     /\ UNCHANGED <<pl_result, saved_manifest>>
                ELSE /\ pl_calls' = Append(pl_calls,
                            Call("create_multiple_formats", "empty"))
                     /\ Leave("False")
       \/ /\ pl_flags.skip_video
          /\ manifest' = Managed(add_workflow_step(
                 manifest, "Video Composition", "compose", "completed"))
          /\ pl_pc' = "manifest"
          /\ UNCHANGED <<pl_calls, pl_result, saved_manifest, disk>>
    /\ UNCHANGED <<pl_flags, pl_env, pl_news, renderVars, stageVars,
                   particleVars, textVars, ampVars, gradVars, scriptVars,
                   fetchVars>>

\* Step 5.  save_manifest, whose failure only warns, and return True.
ManifestStage ==
    /\ pl_pc = "manifest"
    /\ \/ /\ pl_env.asset_manager
          /\ \/ /\ pl_calls' = Append(pl_calls, Call("save_manifest", "ok"))
                /\ saved_manifest' = <<manifest>>
             \/ /\ pl_calls' = Append(pl_calls,
                                      Call("save_manifest", "raised"))
                /\ UNCHANGED saved_manifest
       \/ /\ ~pl_env.asset_manager
          /\ UNCHANGED <<pl_calls, saved_manifest>>
    /\ pl_result' = "True"
    /\ pl_pc' = "done"
    /\ UNCHANGED <<pl_flags, pl_env, pl_news, manifest, disk, renderVars,
                   stageVars, particleVars, textVars, ampVars, gradVars,
                   scriptVars, fetchVars>>

PipelineIdle ==
    /\ pl_pc = "idle"
    /\ pl_flags = <<>>
    /\ pl_env = <<>>
    /\ pl_news = "empty"
    /\ pl_calls = <<>>
    /\ pl_result = "running"

\* ----------------------------------------------------- create_video_script
\* Texts are their lengths in characters.  A script is the sequence of its
\* parts, each with its kind, its story number and its length; ''.join adds
\* the lengths up.
NO_NEWS_LENGTH == 86     \* "Welcome to AI Tech Bytes. No AI news ..."
INTRO_LENGTH == 58       \* "Welcome to AI Tech Bytes. Here are ..."
OUTRO_LENGTH == 84       \* "\nThat's all for today's AI Tech Bytes. ..."

\* len("\nStory {}: ".format(i))
StoryPrefix(i) == IF i < 10 THEN 10 ELSE 11

TitleLengths == {5, 40}
DescriptionLengths == {0, 100}
SummaryLengths == {10, 1000}
Budgets == {40, 58, 70, 86, 130, 160, 250, 900}
ScriptItems == [title : TitleLengths, description : DescriptionLengths]

\* len(text[:m]) for a text of length len
SliceLength(len, m) == IF m >= 0 THEN Min(len, m) ELSE Max(len + m, 0)

\* The length of what summarize_article returns.  summary is the length of
\* the text the HuggingFace pipeline gives back, -1 when there is no
\* pipeline or it raised.
summarize_article(title, description, max_chars, summary) ==
    LET combined_text == IF description > 0 THEN title + 2 + description
                         ELSE title
    IN IF combined_text <= max_chars THEN combined_text
       ELSE IF summary >= 0 THEN title + 2 + summary
       ELSE SliceLength(combined_text, max_chars)

Part(kind, number, len) == [kind |-> kind, number |-> number, len |-> len]

\* A test that lets everything in.
FitsAlways(current_length, len, max_total_chars) == TRUE

\* current_length + len(piece) <= max_total_chars
Fits(current_length, len, max_total_chars) ==
    current_length + len <= max_total_chars

ScriptInit ==
    /\ sc_pc = "called"
    /\ sc_args \in [news_items : UNION {[1..n -> ScriptItems] :
                                          n \in 0..MaxItems},
                    max_total_chars : Budgets,
                    has_transformers : BOOLEAN]
    /\ sc_i = 0
    /\ sc_parts = <<>>
    /\ sc_current_length = 0
    /\ sc_script = <<>>

\* `if not news_items: return ...`
ScriptNoNews ==
    /\ sc_pc = "called"
    /\ sc_args.news_items = <<>>
    /\ sc_script' = <<Part("no_news", 0, NO_NEWS_LENGTH)>>
    /\ sc_pc' = "returned"
    /\ UNCHANGED <<sc_args, sc_i, sc_parts, sc_current_length, renderVars,
                   stageVars, particleVars, textVars, ampVars, gradVars,
                   pipeVars, assetVars, fetchVars>>

\* script_parts = [intro]; current_length = len(script_parts[0])
ScriptIntro ==
    /\ sc_pc = "called"
    /\ sc_args.news_items # <<>>
    /\ sc_parts' = <<Part("intro", 0, INTRO_LENGTH)>>
    /\ sc_current_length' = INTRO_LENGTH
    /\ sc_i' = 1
    /\ sc_pc' = "loop"
    /\ UNCHANGED <<sc_args, sc_script, renderVars, stageVars, particleVars,
                   textVars, ampVars, gradVars, pipeVars, assetVars,
                   fetchVars>>

\* One pass of the loop that goes on after a story that does not fit.
StoryStepContinue ==
    /\ sc_pc = "loop"
    /\ \E summary \in
          (IF sc_args.has_transformers THEN SummaryLengths ELSE {}) \cup {-1} :
          LET n == Len(sc_args.news_items)
              item == sc_args.news_items[sc_i]
              chars_per_article ==
                  (sc_args.max_total_chars - sc_current_length)
                     \div (n - sc_i + 1)
              article_text ==
                  summarize_article(item.title, item.description,
                                    TruncDiv(chars_per_article * 9, 10),
                                    summary)
              story_line == StoryPrefix(sc_i) + article_text
          IN IF Fits(sc_current_length, story_line, sc_args.max_total_chars)
             THEN /\ sc_parts' = Append(sc_parts,
                                        Part("story", sc_i, story_line))
                  /\ sc_current_length' = sc_current_length + story_line
                  /\ sc_i' = sc_i + 1
                  /\ sc_pc' = IF sc_i = n THEN "outro" ELSE "loop"
             ELSE /\ sc_i' = sc_i + 1
                  /\ sc_pc' = IF sc_i = n THEN "outro" ELSE "loop"
                  /\ UNCHANGED <<sc_parts, sc_current_length>>
    /\ UNCHANGED <<sc_args, sc_script, renderVars, stageVars, particleVars,
                   textVars, ampVars, gradVars, pipeVars, assetVars,
                   fetchVars>>

\* One pass of the loop over news_items: the story is appended when it fits
\* and the loop breaks when it does not.
StoryStep ==
    /\ sc_pc = "loop"
    /\ \E summary \in
          (IF sc_args.has_transformers THEN SummaryLengths ELSE {}) \cup {-1} :
          LET n == Len(sc_args.news_items)
              item == sc_args.news_items[sc_i]
              chars_per_article ==
                  (sc_args.max_total_chars - sc_current_length)
                     \div (n - sc_i + 1)
              article_text ==
                  summarize_article(item.title, item.description,
                                    TruncDiv(chars_per_article * 9, 10),
                                    summary)
              story_line == StoryPrefix(sc_i) + article_text
          IN IF Fits(sc_current_length, story_line, sc_args.max_total_chars)
             THEN /\ sc_parts' = Append(sc_parts,
                                        Part("story", sc_i, story_line))
                  /\ sc_current_length' = sc_current_length + story_line
                  /\ sc_i' = sc_i + 1
                  /\ sc_pc' = IF sc_i = n THEN "outro" ELSE "loop"
             ELSE /\ sc_pc' = "outro"
                  /\ UNCHANGED <<sc_parts, sc_current_length, sc_i>>
    /\ UNCHANGED <<sc_args, sc_script, renderVars, stageVars, particleVars,
                   textVars, ampVars, gradVars, pipeVars, assetVars,
                   fetchVars>>

\* The outro is appended when it fits, and the parts are joined.
ScriptOutro ==
    /\ sc_pc = "outro"
    /\ LET parts == IF Fits(sc_current_length, OUTRO_LENGTH,
                            sc_args.max_total_chars)
                    THEN Append(sc_parts, Part("outro", 0, OUTRO_LENGTH))
                    ELSE sc_parts
       IN /\ sc_parts' = parts
          /\ sc_script' = parts
    /\ sc_pc' = "returned"
    /\ UNCHANGED <<sc_args, sc_i, sc_current_length, renderVars, stageVars,
                   particleVars, textVars, ampVars, gradVars, pipeVars,
                   assetVars, fetchVars>>

ScriptIdle ==
    /\ sc_pc = "idle"
    /\ sc_args = <<>>
    /\ sc_i = 0
    /\ sc_parts = <<>>
    /\ sc_current_length = 0
    /\ sc_script = <<>>

\* ------------------------------------- fetch_ai_news (enhanced_news_fetcher)
\* ------------------------------------------- enhanced_news_fetcher.py
\* An article is its title, where it came from and its 'published' string.
\* Feeds give the date as they carry it: RFC 822 ("Wed, 01 Jan 2025 ...") in
\* RSS, ISO 8601 ("2025-01-01T...") in Atom and in NewsAPI.  Day 0 is
\* Wednesday 1 January 2025.
MaxFetched == 2
ArticleTitles == {"a", "b"}
Days == 0..1
DateFormats == {"rfc822", "iso"}

Published == [format : DateFormats, day : Days]
Article(title, source, published) ==
    [title |-> title, source |-> source, published |-> published]

RssArticles == {Article(t, "rss", p) : t \in ArticleTitles, p \in Published}
ApiArticles == {Article(t, "api", [format |-> "iso", day |-> d]) :
                   t \in ArticleTitles, d \in Days}

\* The place of a day's English name among the seven, in alphabetical order:
\* Fri, Mon, Sat, Sun, Thu, Tue, Wed.
WeekdayRank(day) == <<7, 5, 1, 3, 4, 2, 6>>[(day % 7) + 1]

\* The 'published' string as string comparison sees it: a digit sorts before
\* a letter, an ISO date sorts by its digits, an RFC 822 date by the name of
\* its weekday first.
PublishedString(p) ==
    IF p.format = "iso" THEN <<0, p.day>>
    ELSE <<1, WeekdayRank(p.day), p.day>>

RECURSIVE StringLess(_, _)
StringLess(s, t) ==
    IF t = <<>> THEN FALSE
    ELSE IF s = <<>> THEN TRUE
    ELSE IF s[1] # t[1] THEN s[1] < t[1]
    ELSE StringLess(Tail(s), Tail(t))

\* get_sample_news(): five articles, each published now.
SampleTitles == <<"s1", "s2", "s3", "s4", "s5">>
get_sample_news ==
    [i \in 1..Len(SampleTitles) |->
        Article(SampleTitles[i], "sample", [format |-> "iso", day |-> 1])]

\* Of the articles with one title the last is kept.
RECURSIVE DeduplicateKeepLast(_)
DeduplicateKeepLast(articles) ==
    IF articles = <<>> THEN <<>>
    ELSE LET rest == Tail(articles)
         IN IF \E j \in 1..Len(rest) : rest[j].title = articles[1].title
            THEN DeduplicateKeepLast(rest)
            ELSE <<articles[1]>> \o DeduplicateKeepLast(rest)

\* The loop over all_articles with seen_titles: an article is appended when
\* its title has not been seen.
RECURSIVE Deduplicate(_)
Deduplicate(articles) ==
    IF articles = <<>> THEN <<>>
    ELSE LET front == Deduplicate(SubSeq(articles, 1, Len(articles) - 1))
             last == articles[Len(articles)]
         IN IF \E j \in 1..Len(front) : front[j].title = last.title
            THEN front
            ELSE Append(front, last)

\* list.sort(key=published, reverse=True): descending by the string, and
\* articles with equal strings keep their order.
RECURSIVE SortPublished(_)
SortPublished(articles) ==
    IF articles = <<>> THEN <<>>
    ELSE LET sorted == SortPublished(SubSeq(articles, 1, Len(articles) - 1))
             x == articles[Len(articles)]
             before == SelectSeq(sorted, LAMBDA y :
                          ~StringLess(PublishedString(y.published),
                                      PublishedString(x.published)))
             after == SelectSeq(sorted, LAMBDA y :
                          StringLess(PublishedString(y.published),
                                     PublishedString(x.published)))
         IN before \o <<x>> \o after

\* articles[:n] for n >= 0
Take(articles, n) == SubSeq(articles, 1, Min(n, Len(articles)))

ArticleLists(S) == UNION {[1..n -> S] : n \in 0..MaxFetched}

\* What the sources give: fetch_from_free_rss the articles of the feeds that
\* parsed (none when feedparser is missing or every feed failed), and
\* fetch_from_newsapi nothing without a key or after an error.
RssOutcomes == ArticleLists(RssArticles)
ApiOutcomes ==
    {[status |-> s, articles |-> <<>>] : s \in {"no_key", "raised"}}
       \cup {[status |-> "ok", articles |-> l] :
                l \in UNION {[1..n -> ApiArticles] : n \in 0..1}}

\* all_articles after the two extend calls.
AllArticles(args, sources) ==
    (IF args.use_rss THEN sources.rss ELSE <<>>)
       \o (IF args.use_api THEN sources.api.articles ELSE <<>>)

fetch_ai_news(args, sources) ==
    LET all_articles == AllArticles(args, sources)
    IN IF all_articles = <<>> THEN get_sample_news
       ELSE Take(SortPublished(Deduplicate(all_articles)), args.num_articles)

FetchInit ==
    /\ fe_pc = "called"
    /\ fe_args \in [num_articles : 0..MaxFetched,
                    use_rss : BOOLEAN, use_api : BOOLEAN]
    /\ fe_sources \in [rss : RssOutcomes, api : ApiOutcomes]
    /\ fe_result = <<>>

Fetch ==
    /\ fe_pc = "called"
    /\ fe_result' = fetch_ai_news(fe_args, fe_sources)
    /\ fe_pc' = "returned"
    /\ UNCHANGED <<fe_args, fe_sources, renderVars, stageVars, particleVars,
                   textVars, ampVars, gradVars, pipeVars, assetVars,
                   scriptVars>>

FetchIdle ==
    /\ fe_pc = "idle"
    /\ fe_args = <<>>
    /\ fe_sources = <<>>
    /\ fe_result = <<>>

\* ------------------------------------------------------ the specifications
UpstreamIdle == PipelineIdle /\ AssetsIdle /\ ScriptIdle /\ FetchIdle

Elsewhere == AmplitudeIdle /\ GradientIdle /\ UpstreamIdle

Init == RenderInit /\ StageIdle /\ ParticlesIdle /\ TextIdle /\ Elsewhere

Next ==
    \/ LoadAudio
    \/ LoadAudioFails
    \/ Prepare
    \/ ArticleFrame
    \/ ClosingClip
    \/ Composite
    \/ WriteVideo
    \/ WriteVideoFails

\* One run of create_video_from_audio.
Spec == Init /\ [][Next]_vars

RenderIdle ==
    /\ pc = "idle"
    /\ platform = "youtube_shorts"
    /\ duration = 0
    /\ news_items = <<>>
    /\ fps = 0
    /\ content_duration = 0
    /\ duration_per_article = <<0, 1>>
    /\ idx = 0
    /\ frame_num = 0
    /\ all_clips = <<>>
    /\ video = <<>>
    /\ result = "running"
    /\ news_file = "unread"
    /\ io_error = "none"
    /\ audio_loads = 0
    /\ write_attempts = 0

\* A particle system and the updates made on it.
InitParticles ==
    RenderIdle /\ StageIdle /\ ParticlesInit /\ TextIdle /\ Elsewhere
NextParticles == Update
SpecParticles == InitParticles /\ [][NextParticles]_vars

\* Calls of create_animated_text on one machine.
InitText ==
    RenderIdle /\ StageIdle /\ ParticlesIdle /\ TextInit /\ Elsewhere
NextText == CallAnimatedText
SpecText == InitText /\ [][NextText]_vars

\* The video step of run_pipeline: create_multiple_formats and what
\* run_pipeline does with the list it returns.
InitVideoStage ==
    RenderIdle /\ StageInit /\ ParticlesIdle /\ TextIdle /\ Elsewhere
NextVideoStage ==
    \/ StartRender
    \/ LoadAudio
    \/ LoadAudioFails
    \/ Prepare
    \/ ArticleFrame
    \/ ClosingClip
    \/ Composite
    \/ WriteVideo
    \/ WriteVideoFails
    \/ FinishRender
    \/ RegisterVideos
SpecVideoStage == InitVideoStage /\ [][NextVideoStage]_vars

\* A ParticleSystem updated and drawn in any order.
InitParticleFrames == InitParticles
NextParticleFrames ==
    \/ Update
    \/ Draw
SpecParticleFrames == InitParticleFrames /\ [][NextParticleFrames]_vars

\* The amplitude extractor on one audio signal.
InitAmplitude ==
    /\ RenderIdle /\ StageIdle /\ ParticlesIdle /\ TextIdle
    /\ AmplitudeInit /\ GradientIdle /\ UpstreamIdle
NextAmplitude == Extract
SpecAmplitude == InitAmplitude /\ [][NextAmplitude]_vars

\* create_gradient_background on one set of arguments.
InitGradient ==
    /\ RenderIdle /\ StageIdle /\ ParticlesIdle /\ TextIdle
    /\ AmplitudeIdle /\ GradientInit /\ UpstreamIdle
NextGradient == Gradient
SpecGradient == InitGradient /\ [][NextGradient]_vars

\* An AssetManager driven through its three methods in any order.
InitManifest ==
    /\ RenderIdle /\ StageIdle /\ ParticlesIdle /\ TextIdle
    /\ AmplitudeIdle /\ GradientIdle
    /\ PipelineIdle /\ AssetsInit /\ ScriptIdle /\ FetchIdle
NextManifest ==
    \/ AddAsset
    \/ AddWorkflowStep
    \/ SaveManifest
SpecManifest == InitManifest /\ [][NextManifest]_vars

\* One run of run_pipeline.
InitPipeline ==
    /\ RenderIdle /\ StageIdle /\ ParticlesIdle /\ TextIdle
    /\ AmplitudeIdle /\ GradientIdle
    /\ PipelineInit /\ ScriptIdle /\ FetchIdle
NextPipeline ==
    \/ NewsStage
    \/ SummarizeStage
    \/ AudioStage
    \/ VideoStage
    \/ ManifestStage
SpecPipeline == InitPipeline /\ [][NextPipeline]_vars

\* create_video_script on one list of news items.
InitScript ==
    /\ RenderIdle /\ StageIdle /\ ParticlesIdle /\ TextIdle
    /\ AmplitudeIdle /\ GradientIdle
    /\ PipelineIdle /\ AssetsIdle /\ ScriptInit /\ FetchIdle
NextScript ==
    \/ ScriptNoNews
    \/ ScriptIntro
    \/ StoryStep
    \/ ScriptOutro
SpecScript == InitScript /\ [][NextScript]_vars

\* The enhanced fetch_ai_news on one outcome of its sources.
InitFetch ==
    /\ RenderIdle /\ StageIdle /\ ParticlesIdle /\ TextIdle
    /\ AmplitudeIdle /\ GradientIdle
    /\ PipelineIdle /\ AssetsIdle /\ ScriptIdle /\ FetchInit
NextFetch == Fetch
SpecFetch == InitFetch /\ [][NextFetch]_vars

\* ------------------------------------------------------------ the claims
\* ceil(total_duration * frame_rate): the frames the audio track spans.
TotalFrames == CeilDiv(duration * fps, TicksPerSecond)

\* The frames of the concatenated video.
VideoFrames == SumFrames(all_clips)

Composited == pc \in {"write", "done"} /\ video # <<>>

KindsOf(segs) == [k \in 1..Len(segs) |-> segs[k].kind]

\* The clips made for story s (1-based), in the order they were appended.
StoryClips(s) ==
    LET IsOfStory(c) == c.kind = "article" /\ c.story = s
    IN SelectSeq(all_clips, IsOfStory)

\* Story s has all its frames: the loop has moved past it.
StoryComplete(s) == s <= idx \/ pc \in {"closing", "concat", "write", "done"}

\* C1: the composited timeline (opening clip, every article clip, closing
\* clip) holds exactly ceil(total_duration * frame_rate) frames, so the
\* video is as long as the audio attached to it.
C1_FrameCountMatchesAudio == Composited => VideoFrames = TotalFrames

\* C2: the segments partition [0, total_frames): the first starts at 0, each
\* starts where the one before ends, the last ends at total_frames; the
\* intro is first, the outro last, and the content items run in between in
\* the order of news_items.
C2_Contiguous ==
    /\ video[1].start = 0
    /\ \A k \in 1..(Len(video) - 1) :
          /\ video[k].frames > 0
          /\ video[k + 1].start = video[k].start + video[k].frames
C2_InItemOrder ==
    /\ video[1].kind = "opening"
    /\ video[Len(video)].kind = "closing"
    /\ \A k \in 2..(Len(video) - 1) :
          /\ video[k].kind = "article"
          /\ video[k].story \in 1..Len(news_items)
          /\ video[k].title = news_items[video[k].story]
          /\ k > 2 => video[k].story \in {video[k - 1].story,
                                           video[k - 1].story + 1}
    /\ \A s \in 1..Len(news_items) :
          \E k \in 2..(Len(video) - 1) : video[k].story = s
C2_SegmentsPartitionTotalFrames ==
    Composited =>
       /\ C2_Contiguous
       /\ C2_InItemOrder
       /\ video[Len(video)].start + video[Len(video)].frames = TotalFrames

\* The part of C2 that does not depend on the length of the audio.
SegmentsPartitionVideo ==
    Composited =>
       /\ C2_Contiguous
       /\ C2_InItemOrder
       /\ video[Len(video)].start + video[Len(video)].frames = VideoFrames

C4_ContentDurationNonNegative ==
    /\ pc \notin {"idle", "load_audio", "load_news"} => content_duration >= 0
    /\ (Composited
          /\ duration < (OPENING_SECONDS + CLOSING_SECONDS) * TicksPerSecond)
         => (all_clips[1].frames + all_clips[Len(all_clips)].frames)
               * TicksPerSecond < duration * fps

\* C5: with no content item the render is the intro and the outro alone and
\* still holds ceil(total_duration * frame_rate) frames.
C5_EmptyListFrameCount ==
    (Composited /\ news_items = <<>>) =>
       /\ KindsOf(video) = <<"opening", "closing">>
       /\ VideoFrames = TotalFrames

LAYER_ORDER == <<"background", "particles", "shapes", "text">>
Rank(layer) ==
    IF \E r \in 1..Len(LAYER_ORDER) : LAYER_ORDER[r] = layer
    THEN CHOOSE r \in 1..Len(LAYER_ORDER) : LAYER_ORDER[r] = layer
    ELSE 0
C7_ParticlesInBounds ==
    \A i \in DOMAIN particles :
       /\ 0 <= particles[i].x /\ particles[i].x <= ps_width
       /\ 0 <= particles[i].y /\ particles[i].y <= ps_height

\* An update has just carried a particle over the right edge and another
\* over the top edge: the first sits at x = 0 still moving right, the second
\* at y = height still moving up.
C7_Witness ==
    /\ ps_audio_level = 4
    /\ Len(particles) = 2
    /\ particles[1].x = 0 /\ particles[1].vx > 0
    /\ particles[2].y = ps_height /\ particles[2].vy < 0

\* Where update's move takes particle i before any wrap.
MovedX(i) == particles[i].x + particles[i].vx * SpeedBoost(ps_audio_level')
MovedY(i) == particles[i].y + particles[i].vy * SpeedBoost(ps_audio_level')

\* C8 as claimed: a particle carried past an edge by d comes back in d from
\* the opposite edge, its position taken modulo the canvas.
C8_MirroredWrap ==
    [][\A i \in DOMAIN particles :
          /\ MovedX(i) > ps_width => particles'[i].x = MovedX(i) % ps_width
          /\ MovedX(i) < 0 => particles'[i].x = MovedX(i) % ps_width
          /\ MovedY(i) > ps_height => particles'[i].y = MovedY(i) % ps_height
          /\ MovedY(i) < 0 => particles'[i].y = MovedY(i) % ps_height]_vars

\* C8 as the code has it: a particle carried past an edge comes back in on
\* the opposite edge itself, whatever the overshoot: x = 0 after passing
\* width, x = width after passing 0, and the same for y; a particle that
\* stays on the canvas is where the move took it.
C8_WrapToOppositeEdge ==
    [][\A i \in DOMAIN particles :
          /\ MovedX(i) > ps_width => particles'[i].x = 0
          /\ MovedX(i) < 0 => particles'[i].x = ps_width
          /\ (0 <= MovedX(i) /\ MovedX(i) <= ps_width)
                => particles'[i].x = MovedX(i)
          /\ MovedY(i) > ps_height => particles'[i].y = 0
          /\ MovedY(i) < 0 => particles'[i].y = ps_height
          /\ (0 <= MovedY(i) /\ MovedY(i) <= ps_height)
                => particles'[i].y = MovedY(i)]_vars

\* An update at full audio level has carried a particle moving left and up
\* past the left edge and past the bottom edge, by more than the canvas is
\* wide: it sits at x = width, y = 0.
C8_Witness ==
    /\ ps_audio_level = 4
    /\ \E i \in DOMAIN particles :
          /\ particles[i].vx = -1 /\ particles[i].x = ps_width
          /\ particles[i].vy = 1 /\ particles[i].y = 0

Failed(entry) == entry.io_error # "none"
InSeq(x, seq) == \E k \in 1..Len(seq) : seq[k] = x
AnyRenderSucceeded == \E k \in 1..Len(render_log) : ~Failed(render_log[k])

\* C11: a render stopped by an I/O or encoder failure returns None; its output
\* is neither in the list create_multiple_formats returns nor registered as a
\* video asset; and run_pipeline does not go on as a success when no render
\* succeeded.
C11_FailedRenderYieldsNothing ==
    /\ (pc = "done" /\ io_error # "none") => result = "None"
    /\ \A k \in 1..Len(render_log) :
          Failed(render_log[k]) =>
             /\ render_log[k].result = "None"
             /\ ~InSeq(render_log[k].platform, created_videos)
             /\ ~InSeq(render_log[k].platform, video_assets)
    /\ (stage_pc = "done" /\ ~AnyRenderSucceeded) => pipeline_result = "False"

\* The encoder failed for the first platform, the second render succeeded, and
\* run_pipeline has registered the videos.
C11_Witness ==
    /\ stage_pc = "done"
    /\ Len(render_log) = 2
    /\ render_log[1].io_error = "encoder"
    /\ render_log[2].io_error = "none"
    /\ video_assets = <<"youtube">>

\* ---------------------------------------------------------------- C12
ContentClips == {k \in 1..Len(all_clips) : all_clips[k].kind = "article"}

\* C12: when the news file is missing, unreadable or holds no article, the
\* render goes on with exactly one placeholder content item, which gets its
\* clips between the opening and the closing.
C12_OnePlaceholderItem ==
    news_file \in {"missing", "unreadable", "empty"} =>
        /\ Len(news_items) = 1
        /\ pc \in {"concat", "write"} => ContentClips # {}

\* ---------------------------------------------------------------- C13
\* C13: an audio file that cannot be loaded does not abort the render: the
\* call goes on with a silent default and still produces a video, so no call
\* returns None on account of the audio.
C13_SilentDefaultStillRenders ==
    io_error = "audio" => /\ pc # "done"
                          /\ result # "None"

\* ---------------------------------------------------------------- C14
\* The draw.text calls create_animated_text makes for an effect and a text.
DrawCalls(effect, text) ==
    CASE effect \in {"slide", "zoom", "pulse"} -> 5
      [] effect = "wave" -> Len(text)
      [] OTHER -> 1

\* C14: a preferred font that is missing or does not load never fails a
\* frame: every text-rendering function then draws with the default font, and
\* the image is produced with all its draw calls.
C14_DefaultFontFallback ==
    /\ \A size \in FontSizes :
          /\ MakerLoadFont(size).face \in {"truetype", "default"}
          /\ font_env # "truetype" => MakerLoadFont(size).face = "default"
    /\ text_last # NoCall =>
          /\ Len(text_last.out) = DrawCalls(text_last.args[6], text_last.args[3])
          /\ \A k \in 1..Len(text_last.out) :
                LET font == text_last.out[k].font
                IN /\ font.face \in {"truetype", "default"}
                   /\ font_env # "truetype" => font.face = "default"
                   /\ font.face = "truetype" => font.size > 0

\* A zoomed text was drawn while the preferred font file does not load.
C14_Witness ==
    /\ font_env = "broken"
    /\ text_last # NoCall
    /\ text_last.args[6] = "zoom"
    /\ text_last.args[3] # <<>>
    /\ Len(text_last.out) = 5

\* ---------------------------------------------------------------- C15
\* C15: nothing is retried.  One call of create_video_from_audio loads the
\* audio at most once and attempts the encoder write at most once, and
\* create_multiple_formats calls it exactly once for each platform, in order,
\* whether or not the call fails.
C15_NoRetries ==
    /\ audio_loads <= 1
    /\ write_attempts <= 1
    /\ \A k \in 1..Len(render_log) :
          /\ render_log[k].audio_loads = 1
          /\ render_log[k].write_attempts <= 1
          /\ render_log[k].platform = CMF_PLATFORMS[k]
    /\ Len(render_log) <= Len(CMF_PLATFORMS)
    /\ stage_pc \in {"formats", "rendering"} => Len(render_log) = cmf_index - 1
    /\ stage_pc \in {"register", "done"} =>
          Len(render_log) = Len(CMF_PLATFORMS)

\* Both renders failed, the first at the audio and the second at the encoder,
\* and create_multiple_formats has returned.
C15_Witness ==
    /\ stage_pc = "done"
    /\ Len(render_log) = 2
    /\ render_log[1].io_error = "audio"
    /\ render_log[1].write_attempts = 0
    /\ render_log[2].io_error = "encoder"
    /\ render_log[2].write_attempts = 1
    /\ pipeline_result = "False"

\* ---------------------------------------------------------------- C16
\* The rendered frames the call holds and has not yet handed to the encoder:
\* one image in each clip of all_clips, until write_videofile has run.
HeldFrames == IF pc = "done" THEN 0 ELSE Len(all_clips)

C17_AmplitudeSeries ==
    amp_pc = "done" =>
        /\ Len(amp_series) = amp_n
        /\ \A j \in 1..Len(amp_series) :
              /\ amp_series[j][2] > 0
              /\ 0 <= amp_series[j][1]
              /\ amp_series[j][1] <= amp_series[j][2]
        /\ (\A k \in 1..Len(amp_energy) : amp_energy[k] = 0) =>
              \A j \in 1..Len(amp_series) : amp_series[j][1] = 0

\* Three windows were resampled onto four frames, and the second frame lies
\* strictly between silence and the loudest window.
C17_Witness ==
    /\ amp_pc = "done"
    /\ amp_energy = <<0, 2, 1>>
    /\ amp_n = 4
    /\ Len(amp_series) = 4
    /\ 0 < amp_series[2][1]
    /\ amp_series[2][1] < amp_series[2][2]

\* ---------------------------------------------------------------- C20
\* C20: for every pixel of create_gradient_background, in each of the four
\* directions, with progress in [0, 1] and a positive width and height, the
\* ratio lies in [0, 1) and both colour indices are within the colour list,
\* a list of one colour included.
C20_GradientInBounds ==
    grad_pc = "returned" =>
        \A y \in DOMAIN grad_pixels : \A x \in DOMAIN grad_pixels[y] :
            LET px == grad_pixels[y][x]
                n == Len(grad_args.colors)
            IN /\ px.ratio[2] > 0
               /\ 0 <= px.ratio[1]
               /\ px.ratio[1] < px.ratio[2]
               /\ px.idx1 \in 0..(n - 1)
               /\ px.idx2 \in 0..(n - 1)
               /\ px.color \in 0..255

\* A radial gradient over three colours at full progress, one pixel of which
\* falls between the second colour and the third.
C20_Witness ==
    /\ grad_pc = "returned"
    /\ grad_args.direction = "radial"
    /\ Len(grad_args.colors) = 3
    /\ grad_args.progress = 4
    /\ \E y \in DOMAIN grad_pixels : \E x \in DOMAIN grad_pixels[y] :
          /\ grad_pixels[y][x].idx1 = 1
          /\ grad_pixels[y][x].idx2 = 2

\* ---------------------------------------------------------------- C18
\* C18: update(audio_level) advances every particle once, and before the
\* edge wrap the displacement is velocity * (1 + k * audio_level) with k = 4:
\* a particle that this displacement leaves on the canvas is exactly there
\* afterwards, and at audio_level = 0 the displacement is the velocity.  The
\* level is in quarters, so positions are compared multiplied by 4.
C18_BoostedDisplacement ==
    [][\A i \in DOMAIN particles :
          LET p == particles[i]
              q == ps_audio_level'
              tx == 4 * p.x + p.vx * (4 + 4 * q)
              ty == 4 * p.y + p.vy * (4 + 4 * q)
          IN /\ (0 <= tx /\ tx <= 4 * ps_width) => 4 * particles'[i].x = tx
             /\ (0 <= ty /\ ty <= 4 * ps_height) => 4 * particles'[i].y = ty
             /\ (q = 0 /\ 0 <= p.x + p.vx /\ p.x + p.vx <= ps_width)
                   => particles'[i].x - p.x = p.vx
             /\ (q = 0 /\ 0 <= p.y + p.vy /\ p.y + p.vy <= ps_height)
                   => particles'[i].y - p.y = p.vy]_vars

\* An update at a quarter of the full level has carried a particle two to
\* the right, from x = 0, without a wrap.
C18_Witness ==
    /\ ps_audio_level = 1
    /\ \E i \in DOMAIN particles :
          /\ particles[i].vx = 1
          /\ particles[i].x = 2
          /\ particles[i].vy = 0

\* ---------------------------------------------------------------- C19
\* C19: the particle set is of fixed size and persists: there are always
\* num_particles particles, update leaves each particle's velocity, size and
\* colour as they were, and draw changes nothing of any particle.
C19_ParticlesPersist ==
    [][/\ Len(particles) = ps_num_particles
       /\ Len(particles') = ps_num_particles
       /\ \A i \in DOMAIN particles :
             /\ particles'[i].vx = particles[i].vx
             /\ particles'[i].vy = particles[i].vy
             /\ particles'[i].size = particles[i].size
             /\ particles'[i].color = particles[i].color
       /\ ps_canvas' # <<>> => particles' = particles]_vars

\* Two particles were updated at full level, the first wrapping to x = 0,
\* and then drawn.
C19_Witness ==
    /\ ps_num_particles = 2
    /\ ps_audio_level = 4
    /\ Len(ps_canvas) = 2
    /\ particles[1].x = 0 /\ particles[1].vx = 1
    /\ ps_canvas[1].box[1] = -particles[1].size

\* ---------------------------------------------------------------- C30
IsAppend(before, after) ==
    /\ Len(after) = Len(before) + 1
    /\ SubSeq(after, 1, Len(before)) = before

\* C30: the manifest is append-only.  A step that changes manifest['assets']
\* appends exactly one record at its end and leaves the workflow steps alone,
\* and the other way round; the record of a file that does not exist has
\* size 0 and no hash; save_manifest changes nothing in the manifest.
C30_ManifestAppendOnly ==
    [][/\ manifest'.assets # manifest.assets =>
             /\ IsAppend(manifest.assets, manifest'.assets)
             /\ manifest'.workflow_steps = manifest.workflow_steps
             /\ LET asset == manifest'.assets[Len(manifest'.assets)]
                IN ~disk[asset.filename].exists =>
                      /\ asset.file_size_bytes = 0
                      /\ asset.md5_hash = "None"
       /\ manifest'.workflow_steps # manifest.workflow_steps =>
             /\ IsAppend(manifest.workflow_steps, manifest'.workflow_steps)
             /\ manifest'.assets = manifest.assets
       /\ saved_manifest' # saved_manifest => manifest' = manifest]_vars

\* The manifest was saved with one asset in it, and an asset for a file that
\* does not exist and a workflow step were added afterwards.
C30_Witness ==
    /\ Len(saved_manifest) = 1
    /\ Len(saved_manifest[1].assets) = 1
    /\ Len(manifest.assets) = 2
    /\ manifest.assets[1] = saved_manifest[1].assets[1]
    /\ manifest.assets[2].md5_hash = "None"
    /\ manifest.assets[2].file_size_bytes = 0
    /\ ~disk[manifest.assets[2].filename].exists
    /\ Len(manifest.workflow_steps) = 1

\* ---------------------------------------------------------------- C21
\* The stage a function belongs to: 1 news, 2 summarization, 3 audio,
\* 4 video, 5 manifest.
StageRank(fn) ==
    CASE fn \in {"fetch_ai_news_enhanced", "fetch_ai_news",
                 "save_news_to_file"} -> 1
      [] fn = "create_video_script" -> 2
      [] fn = "generate_audio_from_news" -> 3
      [] fn = "create_multiple_formats" -> 4
      [] OTHER -> 5

\* A news, audio or video stage failed: it raised, the audio came back as
\* None, or no video was created.
StageFailed(call) ==
    /\ StageRank(call.fn) \in {1, 3, 4}
    /\ call.outcome \in {"raised", "None"}
          \/ (call.fn = "create_multiple_formats" /\ call.outcome = "empty")

CalledStages == {StageRank(pl_calls[k].fn) : k \in 1..Len(pl_calls)}

\* C21: the stages run in the order news, summarization, audio, video,
\* manifest; a failed news, audio or video stage is the last thing that runs
\* and gives False, with no manifest saved; False comes from nothing else,
\* so never from the summarization alone; True comes only at the end, after
\* every stage that was not skipped.
C21_StageOrderAndFailure ==
    /\ \A j, k \in 1..Len(pl_calls) :
          j < k => /\ StageRank(pl_calls[j].fn) <= StageRank(pl_calls[k].fn)
                   /\ pl_calls[j].fn # pl_calls[k].fn
    /\ \A k \in 1..Len(pl_calls) :
          StageFailed(pl_calls[k]) => /\ k = Len(pl_calls)
                                      /\ pl_result = "False"
    /\ pl_result = "False" =>
          /\ pl_calls # <<>>
          /\ StageFailed(pl_calls[Len(pl_calls)])
          /\ 5 \notin CalledStages
          /\ saved_manifest = <<>>
    /\ pl_result = "True" =>
          /\ pl_pc = "done"
          /\ ~pl_flags.skip_news => 1 \in CalledStages
          /\ ~pl_flags.skip_audio => 3 \in CalledStages
          /\ ~pl_flags.skip_video => 4 \in CalledStages
          /\ pl_env.asset_manager => 5 \in CalledStages

\* A run with nothing skipped returned True although the summarization
\* raised.
C21_Witness ==
    /\ pl_result = "True"
    /\ ~pl_flags.skip_news /\ ~pl_flags.skip_audio /\ ~pl_flags.skip_video
    /\ pl_env.asset_manager
    /\ Len(pl_calls) = 6
    /\ pl_calls[3] = Call("create_video_script", "raised")
    /\ pl_calls[6] = Call("save_manifest", "ok")

\* ---------------------------------------------------------------- C22
Called(fn) == \E k \in 1..Len(pl_calls) : pl_calls[k].fn = fn

\* C22: a skip flag suppresses exactly its stage: skip_news calls no news
\* fetcher, skip_audio neither the TTS generator nor the summarizer,
\* skip_video not create_multiple_formats; the stages not skipped still run,
\* so a run in which no stage that ran has failed ends in True.
C22_SkipSuppressesOnlyItsStage ==
    /\ pl_flags # <<>> =>
          /\ pl_flags.skip_news => /\ ~Called("fetch_ai_news")
                                   /\ ~Called("fetch_ai_news_enhanced")
          /\ pl_flags.skip_audio => /\ ~Called("generate_audio_from_news")
                                    /\ ~Called("create_video_script")
          /\ pl_flags.skip_video => ~Called("create_multiple_formats")
    /\ (pl_pc = "done"
          /\ \A k \in 1..Len(pl_calls) : ~StageFailed(pl_calls[k])) =>
          /\ pl_result = "True"
          /\ ~pl_flags.skip_audio => Called("generate_audio_from_news")
          /\ ~pl_flags.skip_video => Called("create_multiple_formats")

\* ---------------------------------------------------------------- C29
StepNamesOf(m) ==
    [k \in 1..Len(m.workflow_steps) |-> m.workflow_steps[k].name]

\* C29: when run_pipeline returns True with an asset manager, the workflow
\* steps of the manifest are News Fetching, Text Summarization, Audio
\* Generation, Video Composition, in that order and each completed, whatever
\* was skipped; when it returns False the manifest is never saved.
C29_WorkflowSteps ==
    /\ (pl_result = "True" /\ pl_env.asset_manager) =>
          /\ StepNamesOf(manifest) =
                <<"News Fetching", "Text Summarization", "Audio Generation",
                  "Video Composition">>
          /\ \A k \in 1..Len(manifest.workflow_steps) :
                manifest.workflow_steps[k].status = "completed"
          /\ saved_manifest # <<>> => saved_manifest[1] = manifest
    /\ pl_result = "False" => /\ saved_manifest = <<>>
                              /\ ~Called("save_manifest")

\* Every stage was skipped, the run returned True and the manifest was saved
\* with its four steps and no asset.
C29_Witness ==
    /\ pl_result = "True"
    /\ pl_env.asset_manager
    /\ pl_flags.skip_news /\ pl_flags.skip_audio /\ pl_flags.skip_video
    /\ Len(manifest.workflow_steps) = 4
    /\ manifest.assets = <<>>
    /\ saved_manifest = <<manifest>>

\* ---------------------------------------------------------------- C28
RECURSIVE SuccessfulPlatforms(_)
SuccessfulPlatforms(log) ==
    IF log = <<>> THEN <<>>
    ELSE (IF Head(log).result # "None" THEN <<Head(log).platform>> ELSE <<>>)
            \o SuccessfulPlatforms(Tail(log))

\* C28: create_multiple_formats renders youtube_shorts and then youtube, one
\* at a time: a render is in progress only for the platform in hand and only
\* once every platform before it has returned; a failed render does not stop
\* the loop; and the returned list is exactly the outputs of the successful
\* renders, in platform order.
C28_SequentialRenders ==
    /\ pc # "idle" => /\ stage_pc = "rendering"
                      /\ cmf_index <= Len(CMF_PLATFORMS)
                      /\ platform = CMF_PLATFORMS[cmf_index]
                      /\ Len(render_log) = cmf_index - 1
    /\ stage_pc = "formats" => cmf_index <= Len(CMF_PLATFORMS)
    /\ created_videos = SuccessfulPlatforms(render_log)
    /\ stage_pc \in {"register", "done"} =>
          [k \in 1..Len(render_log) |-> render_log[k].platform]
             = CMF_PLATFORMS

\* Both renders succeeded and the list holds their outputs in platform order.
C28_Witness ==
    /\ stage_pc = "register"
    /\ created_videos = <<"youtube_shorts", "youtube">>
    /\ render_log[1].result = "output_file"
    /\ render_log[2].result = "output_file"

RECURSIVE ScriptLength(_)
ScriptLength(parts) ==
    IF parts = <<>> THEN 0
    ELSE parts[1].len + ScriptLength(Tail(parts))

ScriptReturned == sc_pc = "returned"

\* C23 as stated: for every list of news items and every max_total_chars at
\* least as long as the intro sentence, the script create_video_script
\* returns has at most max_total_chars characters.
C23_ScriptWithinBudget ==
    (ScriptReturned /\ sc_args.max_total_chars >= INTRO_LENGTH)
        => ScriptLength(sc_script) <= sc_args.max_total_chars

\* C23, amended: the budget is kept for every non-empty list of news items,
\* whatever length the summaries come back with; for an empty list the
\* script is the fixed no-news message, whatever the budget.
C23_NonEmptyScriptWithinBudget ==
    ScriptReturned =>
        /\ (sc_args.news_items # <<>>
              /\ sc_args.max_total_chars >= INTRO_LENGTH)
             => ScriptLength(sc_script) <= sc_args.max_total_chars
        /\ sc_args.news_items = <<>>
             => ScriptLength(sc_script) = NO_NEWS_LENGTH

\* A script with two stories was returned for three items, the third did
\* not fit, and the summariser was there to give back texts of any length.
C23_Witness ==
    /\ ScriptReturned
    /\ sc_args.has_transformers
    /\ sc_args.max_total_chars >= INTRO_LENGTH
    /\ Len(sc_args.news_items) = 3
    /\ Len(sc_script) = 3
    /\ sc_i = 3

Stories(parts) == SelectSeq(parts, LAMBDA p : p.kind = "story")

\* C24: the stories of a script are news_items[0..k-1] in order, numbered
\* Story 1 to Story k, so after a story that does not fit none follows; the
\* intro is first, the outro is last exactly when it fits, and an empty list
\* gives the fixed no-news message.
C24_StoriesArePrefix ==
    /\ (sc_pc \in {"loop", "outro"} \/
        (ScriptReturned /\ sc_args.news_items # <<>>)) =>
          LET k == Len(Stories(sc_parts))
          IN /\ sc_parts[1] = Part("intro", 0, INTRO_LENGTH)
             /\ k <= Len(sc_args.news_items)
             /\ \A j \in 1..k : /\ sc_parts[j + 1].kind = "story"
                                /\ sc_parts[j + 1].number = j
             /\ Len(sc_parts) \in {k + 1, k + 2}
             /\ Len(sc_parts) = k + 2 =>
                   /\ sc_parts[k + 2] = Part("outro", 0, OUTRO_LENGTH)
                   /\ ScriptReturned
    /\ (ScriptReturned /\ sc_args.news_items # <<>>) =>
          /\ sc_script = sc_parts
          /\ (sc_script[Len(sc_script)].kind = "outro")
               <=> (sc_current_length + OUTRO_LENGTH
                       <= sc_args.max_total_chars)
    /\ (ScriptReturned /\ sc_args.news_items = <<>>) =>
          sc_script = <<Part("no_news", 0, NO_NEWS_LENGTH)>>

\* The first of three stories was taken, the second did not fit, and the
\* outro still did.
C24_Witness ==
    /\ ScriptReturned
    /\ Len(sc_args.news_items) = 3
    /\ sc_i = 2
    /\ Len(sc_script) = 3
    /\ sc_script[2].number = 1
    /\ sc_script[3].kind = "outro"

FetchReturned == fe_pc = "returned"
Fetched == AllArticles(fe_args, fe_sources)

\* The first article of a list that has the title.
FirstWithTitle(articles, title) ==
    articles[CHOOSE i \in 1..Len(articles) :
                /\ articles[i].title = title
                /\ \A j \in 1..(i - 1) : articles[j].title # title]

\* C25: a list built from fetched articles has no two articles with the
\* same title, and each of its articles is the first one with that title in
\* source order, RSS before NewsAPI.
C25_FirstOccurrenceKept ==
    (FetchReturned /\ Fetched # <<>>) =>
        /\ \A i, j \in 1..Len(fe_result) :
              i # j => fe_result[i].title # fe_result[j].title
        /\ \A i \in 1..Len(fe_result) :
              fe_result[i] = FirstWithTitle(Fetched, fe_result[i].title)

\* An RSS article and a NewsAPI article share a title, and the returned list
\* carries that title.
C25_Witness ==
    /\ FetchReturned
    /\ \E i, j \in 1..Len(Fetched) :
          /\ i < j
          /\ Fetched[i].title = Fetched[j].title
          /\ Fetched[i].source = "rss" /\ Fetched[j].source = "api"
          /\ Fetched[i].published # Fetched[j].published
          /\ \E k \in 1..Len(fe_result) :
                fe_result[k].title = Fetched[i].title

\* C26: whatever the sources give, fetch_ai_news(num_articles=N) returns at
\* most N articles, and at least one when N >= 1.
C26_AtMostNAndNonEmpty ==
    FetchReturned =>
        /\ Len(fe_result) <= fe_args.num_articles
        /\ fe_args.num_articles >= 1 => fe_result # <<>>

\* C27: the returned articles are in order of publication, newest first, and
\* they are the N newest of the deduplicated articles.
C27_NewestFirst ==
    (FetchReturned /\ Fetched # <<>>) =>
        /\ \A i, j \in 1..Len(fe_result) :
              i < j => fe_result[i].published.day
                          >= fe_result[j].published.day
        /\ LET unique == Deduplicate(Fetched)
           IN \A u \in 1..Len(unique) :
                 (\A k \in 1..Len(fe_result) : fe_result[k] # unique[u])
                    => \A k \in 1..Len(fe_result) :
                          unique[u].published.day
                             <= fe_result[k].published.day

====
